---- MODULE Spec2Model ----
(***************************************************************************)
(* State-machine model of succinate_dehydrogenase_analysis.py: the         *)
(* catalog fetch, the four operator prompts and the four functions         *)
(* download_and_unzip_fasta, extract_and_download_Pfam,                    *)
(* create_hmmer_alice_script and parse_analyse_hmmer_outputs.              *)
(* Python strings are TLC strings; slicing, splitting, int() and lower()   *)
(* are computed character by character.                                    *)
(***************************************************************************)
EXTENDS Integers, Sequences, FiniteSets, TLC

VARIABLES
    pc,           \* position of the main script
    error,        \* the uncaught exception that ended the run, "" while none
    urls,         \* catalog: hrefs ending in .protein.fa.gz (lines 151-155)
    fastas,       \* names returned by download_and_unzip_fasta (line 160)
    hmms,         \* identifiers returned by extract_and_download_Pfam
    user_input,   \* last line read at prompt 1 (line 171)
    user_input2,  \* last answer read at prompt 2, lower-cased (line 188)
    user_input4,  \* last answer read at prompt 4, lower-cased (line 211)
    user_email,   \* the address read at prompt 3 (line 203)
    typed,        \* history: the last line the operator typed, as typed
    files,        \* names of the asset files present in the working directory
    failed,       \* history: assets whose retrieval or decompression failed
    console,      \* the last message printed
    stages,       \* history: the stages started so far, in order
    script,       \* lines of HMMsearch.sh, <<>> while not written
    hit_db,       \* what hmmsearch reports for each (profile, sequence set)
    outs,         \* the .out files in the working directory: name -> records
    opened,       \* history: the paths handed to SearchIO.parse, in order
    df,           \* the aggregated table (line 106)
    summary,      \* hmmer_output_summary.csv, <<"absent">> while not written
    pivot_table,  \* the score matrix (line 114), a set of cells
    images,       \* the image files saved so far, in order
    top_hits      \* the bar chart's input (line 129)

vars == <<pc, error, urls, fastas, hmms, user_input, user_input2, user_email,
          user_input4, typed, files, failed, console, stages, script, hit_db,
          outs, opened, df, summary, pivot_table, images, top_hits>>

(***************************************************************************)
(* Bounds of the model.                                                    *)
(***************************************************************************)
MaxLinks == 5      \* anchors of the catalog page that are read
MaxTokens == 4     \* tokens of an operator line at prompt 1
MaxFailures == 1   \* asset fetches that fail in one run
MaxHits == 3       \* hit rows hmmsearch writes into one .out file

(***************************************************************************)
(* Strings.                                                                *)
(***************************************************************************)
Char(s, i) == SubSeq(s, i, i)

Last(q) == q[Len(q)]

\* str.endswith
EndsWith(s, suf) ==
    /\ Len(s) >= Len(suf)
    /\ SubSeq(s, Len(s) - Len(suf) + 1, Len(s)) = suf

\* str.startswith
StartsWith(s, pre) ==
    /\ Len(s) >= Len(pre)
    /\ SubSeq(s, 1, Len(pre)) = pre

\* s[:-n]
DropLast(s, n) == IF Len(s) <= n THEN "" ELSE SubSeq(s, 1, Len(s) - n)

\* The k-th smallest member of a set of numbers
Nth(P, k) == CHOOSE p \in P : Cardinality({q \in P : q < p}) = k - 1

\* str.split(sep) for a one-character sep: every separator ends a field,
\* empty fields are kept.
Split(s, sep) ==
    LET P == {i \in 1..Len(s) : Char(s, i) = sep}
        cut(k) == IF k = 0 THEN 0
                  ELSE IF k > Cardinality(P) THEN Len(s) + 1
                  ELSE Nth(P, k)
    IN  [k \in 1..(Cardinality(P) + 1) |-> SubSeq(s, cut(k - 1) + 1, cut(k) - 1)]

\* str.split() with no argument: runs of blanks separate, no empty fields.
SplitWs(s) ==
    LET B == {i \in 1..Len(s) : Char(s, i) # " " /\ (i = 1 \/ Char(s, i - 1) = " ")}
        E == {i \in 1..Len(s) : Char(s, i) # " " /\ (i = Len(s) \/ Char(s, i + 1) = " ")}
    IN  [k \in 1..Cardinality(B) |-> SubSeq(s, Nth(B, k), Nth(E, k))]

Upper == "ABCDEFGHIJKLMNOPQRSTUVWXYZ"
Lowercase == "abcdefghijklmnopqrstuvwxyz"

LowerChar(c) ==
    IF \E k \in 1..Len(Upper) : Char(Upper, k) = c
    THEN Char(Lowercase, CHOOSE k \in 1..Len(Upper) : Char(Upper, k) = c)
    ELSE c

\* str.lower
RECURSIVE Lower(_)
Lower(s) == IF s = "" THEN "" ELSE LowerChar(Head(s)) \o Lower(Tail(s))

Digits == "0123456789"

IsDigit(c) == \E k \in 1..Len(Digits) : Char(Digits, k) = c

DigitVal(c) == (CHOOSE k \in 1..Len(Digits) : Char(Digits, k) = c) - 1

RECURSIVE DigitsVal(_, _)
DigitsVal(s, acc) ==
    IF s = "" THEN acc ELSE DigitsVal(Tail(s), 10 * acc + DigitVal(Head(s)))

\* int(tok) for a token without blanks: an optional sign, then digits.
\* ParsesAsInt is FALSE where int() raises ValueError.
Unsigned(tok) ==
    IF tok # "" /\ Head(tok) \in {"+", "-"} THEN Tail(tok) ELSE tok

ParsesAsInt(tok) ==
    /\ Unsigned(tok) # ""
    /\ \A k \in 1..Len(Unsigned(tok)) : IsDigit(Char(Unsigned(tok), k))

IntOf(tok) ==
    IF Head(tok) = "-" THEN 0 - DigitsVal(Unsigned(tok), 0)
    ELSE DigitsVal(Unsigned(tok), 0)

(***************************************************************************)
(* Catalog fetch, lines 148-155.                                           *)
(***************************************************************************)
Suffix == ".protein.fa.gz"

\* The anchors of the catalog page in document order; "" is an anchor
\* without href.
Doc == <<"w/a_b/P1/a.protein.fa.gz", "w/readme.txt", "w/c_d/P2/c.protein.fa.gz",
         "", "w/e_f/P3/e.protein.fa.gz", "w/g_h/P4/g.protein.fa.gz",
         "w/i_j/P5/i.protein.fa.gz">>

Pages == {SubSeq(Doc, 1, n) : n \in 0..MaxLinks} \cup {<<"x.protein.fa.gz">>}

\* lines 151-155
RECURSIVE ExtractUrls(_)
ExtractUrls(hrefs) ==
    IF hrefs = <<>> THEN <<>>
    ELSE IF Head(hrefs) # "" /\ EndsWith(Head(hrefs), Suffix)
         THEN <<Head(hrefs)>> \o ExtractUrls(Tail(hrefs))
         ELSE ExtractUrls(Tail(hrefs))

Crash(exc) ==
    /\ pc' = "crashed"
    /\ error' = exc

CatalogFetch ==
    /\ pc = "fetch"
    /\ stages' = Append(stages, "catalog")
    /\ \/ /\ Crash("ConnectionError")
          /\ urls' = urls
       \/ \E page \in Pages :
            /\ urls' = ExtractUrls(page)
            /\ pc' = "input1"
            /\ error' = error
    /\ UNCHANGED <<fastas, hmms, user_input, user_input2, user_input4, typed,
                   files, failed, console, script, hit_db, user_email, opened, outs, df,
                   summary, pivot_table, images, top_hits>>

(***************************************************************************)
(* Function 1, download_and_unzip_fasta, lines 17-28.                      *)
(***************************************************************************)
\* line 19
local_file(url) == Last(Split(url, "/"))

\* line 28: the name returned, whatever gunzip did
download_and_unzip_fasta(url) == DropLast(local_file(url), 3)

\* What one call meets: urlretrieve raising (line 22), gunzip exiting
\* non-zero on a corrupt or missing archive (line 25), or neither.
DownloadOutcomes == {"ok", "gunzip_failed", "urlretrieve_failed"}

\* The outcomes of a stage's fetches that keep the run within MaxFailures
\* failed fetches
WithinFailures(outcomes) ==
    {o \in outcomes :
        Cardinality({k \in DOMAIN o : o[k] # "ok"}) + Cardinality(failed) <= MaxFailures}

\* lines 22-25: urlretrieve writes local_file; a successful gunzip replaces
\* it by the decompressed file, a failing one leaves it; the exit status
\* of subprocess.call is dropped.
FilesAfterDownload(fs, url, o) ==
    IF o = "ok"
    THEN (fs \ {local_file(url)}) \cup {download_and_unzip_fasta(url)}
    ELSE fs \cup {local_file(url)}

(***************************************************************************)
(* Prompt 1, the selection loop, lines 160-182.                            *)
(***************************************************************************)
Tokens == {"0", "1", "2", "3", "-1", "x"}

RECURSIVE Join(_)
Join(toks) ==
    IF toks = <<>> THEN ""
    ELSE IF Len(toks) = 1 THEN toks[1]
    ELSE toks[1] \o " " \o Join(Tail(toks))

\* The lines the operator may type: every line of three tokens, lines of
\* another number of in-range tokens up to MaxTokens, each separated by one
\* blank, and two lines with irregular blanks.
Lines ==
    {Join(t) : t \in [1..3 -> Tokens]}
        \cup {Join(t) : t \in UNION {[1..n -> {"0", "1"}] : n \in 0..MaxTokens}}
        \cup {" 0  1 2 ", "  "}

\* line 175, right conjunct: all(0 <= int(index_id) < i for ...) from
\* token k on.  The generator stops at the first token out of range, and
\* int() raises on the first token it reaches that is no integer.
RECURSIVE RangeCheck(_, _, _)
RangeCheck(index_ids, k, i) ==
    IF k > Len(index_ids) THEN "accept"
    ELSE IF ~ParsesAsInt(index_ids[k]) THEN "ValueError"
    ELSE IF 0 <= IntOf(index_ids[k]) /\ IntOf(index_ids[k]) < i
         THEN RangeCheck(index_ids, k + 1, i)
    ELSE "reject"

\* line 175
Validate(index_ids, i) ==
    IF Len(index_ids) = 3 THEN RangeCheck(index_ids, 1, i) ELSE "reject"

\* lines 176-178 from token k on: st carries fastas, files and failed; the
\* loop ends at the first urlretrieve that raises.
RECURSIVE DownloadAll(_, _, _, _)
DownloadAll(index_ids, outcome, k, st) ==
    IF k > Len(index_ids) THEN st
    ELSE LET url == urls[IntOf(index_ids[k]) + 1]
             name == download_and_unzip_fasta(url)
         IN  IF outcome[k] = "urlretrieve_failed"
             THEN [st EXCEPT !.failed = @ \cup {name}, !.raised = TRUE]
             ELSE DownloadAll(index_ids, outcome, k + 1,
                    [st EXCEPT
                       !.fastas = Append(@, name),
                       !.files = FilesAfterDownload(@, url, outcome[k]),
                       !.failed = IF outcome[k] = "ok" THEN @ ELSE @ \cup {name}])

\* lines 164-168: the listing indexes the last three segments of each URL
ListingRaises == \E k \in 1..Len(urls) : Len(Split(urls[k], "/")) < 3

SelectionLoop ==
    /\ pc = "input1"
    /\ IF ListingRaises
       THEN /\ Crash("IndexError")
            /\ UNCHANGED <<user_input, typed, fastas, files, failed,
                           console, stages>>
       ELSE \E line \in Lines :
            \E index_ids \in {SplitWs(line)} :
            \E verdict \in {Validate(index_ids, Len(urls))} :
                /\ user_input' = line
                /\ typed' = line
                /\ CASE verdict = "ValueError" ->
                          /\ Crash("ValueError")
                          /\ UNCHANGED <<fastas, files, failed, console,
                                         stages>>
                     [] verdict = "reject" ->
                          /\ console' = "Invalid input. Please enter three valid index numbers."
                          /\ UNCHANGED <<pc, error, fastas, files, failed, stages>>
                     [] verdict = "accept" ->
                          \E outcome \in WithinFailures([1..3 -> DownloadOutcomes]) :
                          \E st \in {DownloadAll(index_ids, outcome, 1,
                                        [fastas |-> fastas, files |-> files,
                                         failed |-> failed, raised |-> FALSE])} :
                                /\ stages' = Append(stages, "download")
                                /\ fastas' = st.fastas
                                /\ files' = st.files
                                /\ failed' = st.failed
                                /\ IF st.raised
                                   THEN /\ Crash("URLError")
                                        /\ console' = console
                                   ELSE /\ pc' = "input2"
                                        /\ error' = error
                                        /\ console' = "FASTA files downloaded successfully"
    /\ UNCHANGED <<urls, hmms, user_input2, user_input4, script, hit_db, user_email, opened, outs,
                   df, summary, pivot_table, images, top_hits>>

(***************************************************************************)
(* Function 2, extract_and_download_Pfam, lines 33-46.                     *)
(***************************************************************************)
DefaultTsv == "SearchResults-succinatedehydrogenase.tsv"

\* The .tsv files of the working directory: the columns of each and the
\* cells of its Accession column.  A name outside the domain is no file.
TsvDir ==
    [n \in {DefaultTsv, "one.tsv", "none.tsv", "nocol.tsv"} |->
        CASE n = DefaultTsv -> [columns |-> {"Accession", "Name"},
                                Accession |-> <<"PF01127", "IPR000701", "PF00890">>]
          [] n = "one.tsv" -> [columns |-> {"Accession"},
                               Accession |-> <<"IPR014314", "PF01127">>]
          [] n = "none.tsv" -> [columns |-> {"Accession"},
                                Accession |-> <<"IPR000701">>]
          [] n = "nocol.tsv" -> [columns |-> {"Name"}, Accession |-> <<>>]]

TsvNames == DOMAIN TsvDir \cup {"gone.tsv"}

\* line 38
RECURSIVE PfamIdentifiers(_)
PfamIdentifiers(col) ==
    IF col = <<>> THEN <<>>
    ELSE IF StartsWith(Head(col), "PF")
         THEN <<Head(col)>> \o PfamIdentifiers(Tail(col))
         ELSE PfamIdentifiers(Tail(col))

\* What wget and gunzip of one profile meet; neither raises, both exit
\* statuses are dropped (lines 42-43).
ProfileOutcomes == {"ok", "wget_failed", "gunzip_failed"}

\* lines 42-43: wget -O creates pf_id.hmm.gz even when it fails; gunzip
\* replaces it by pf_id.hmm when it is a sound archive.
FilesAfterProfile(fs, pf_id, o) ==
    IF o = "ok"
    THEN (fs \ {pf_id \o ".hmm.gz"}) \cup {pf_id \o ".hmm"}
    ELSE fs \cup {pf_id \o ".hmm.gz"}

\* lines 40-43 from identifier k on
RECURSIVE FetchProfiles(_, _, _, _)
FetchProfiles(ids, outcome, k, st) ==
    IF k > Len(ids) THEN st
    ELSE FetchProfiles(ids, outcome, k + 1,
            [files |-> FilesAfterProfile(st.files, ids[k], outcome[k]),
             failed |-> IF outcome[k] = "ok" THEN st.failed
                        ELSE st.failed \cup {ids[k]}])

\* The whole of extract_and_download_Pfam(tsv), then line 198.
extract_and_download_Pfam(tsv) ==
    /\ stages' = Append(stages, "extract")
    /\ IF tsv \notin DOMAIN TsvDir
       THEN /\ Crash("FileNotFoundError")
            /\ UNCHANGED <<hmms, files, failed, console>>
       ELSE IF "Accession" \notin TsvDir[tsv].columns
       THEN /\ Crash("KeyError")
            /\ UNCHANGED <<hmms, files, failed, console>>
       ELSE \E ids \in {PfamIdentifiers(TsvDir[tsv].Accession)} :
                \E outcome \in WithinFailures([1..Len(ids) -> ProfileOutcomes]) :
                  \E st \in {FetchProfiles(ids, outcome, 1,
                                [files |-> files, failed |-> failed])} :
                      /\ hmms' = ids
                      /\ files' = st.files
                      /\ failed' = st.failed
                      /\ console' = "HMM files downloaded successfully"
                      /\ pc' = "input3"
                      /\ error' = error

(***************************************************************************)
(* Prompt 2, lines 187-198.                                                *)
(***************************************************************************)
Answers == {"y", "Y", "change", "CHANGE", "n"}

AcceptsDefault(answer) == answer = "y"        \* line 189
AcceptsChange(answer) == answer = "change"    \* line 192

Prompt2 ==
    /\ pc = "input2"
    /\ \E raw \in Answers :
         /\ user_input2' = Lower(raw)
         /\ typed' = raw
         /\ IF AcceptsDefault(user_input2')
            THEN extract_and_download_Pfam(DefaultTsv)
            ELSE IF AcceptsChange(user_input2')
            THEN \E user_input2B \in TsvNames :
                    extract_and_download_Pfam(user_input2B)
            ELSE /\ console' = "Invalid input. Please type 'y' or 'change'"
                 /\ UNCHANGED <<pc, error, hmms, files, failed, stages>>
    /\ UNCHANGED <<urls, fastas, user_input, user_input4, script,
                   hit_db, user_email, opened, outs, df, summary, pivot_table, images, top_hits>>

(***************************************************************************)
(* Function 3, create_hmmer_alice_script, lines 51-82.                     *)
(***************************************************************************)
\* One file.write: its text without the trailing newlines, and how many
\* newlines end it.
W(text, nl) == [text |-> text, nl |-> nl]

\* lines 55-76
HeaderWrites(email) == <<
    W("#!/bin/bash", 1),
    W("#SBATCH --job-name=HMMer_Nematodes", 1),
    W("#SBATCH --nodes=1", 1),
    W("#SBATCH --tasks-per-node=1", 1),
    W("#SBATCH --mem=8gb", 1),
    W("#SBATCH --time=02:00:00", 1),
    W("#SBATCH --mail-type=BEGIN,END,FAIL", 1),
    W("#SBATCH --mail-user=" \o email, 2),
    W("executable from ALICE", 0),
    W("hmmsearch=/cm/shared/spack/opt/spack/linux-rocky9-x86_64_v3/gcc-12.3.0/hmmer-3.3.2-ipmjfm2vvzhroirpnpn5i4rw5wptqf7r/bin/hmmsearch", 2),
    W("# Module needed for using HPC installed software", 1),
    W("module load gcc/12.3.0-yxgv2bl", 1),
    W("module load openmpi/4.1.5-fzc7xdf", 1),
    W("module load hmmer/3.3.2-ipmjfm2", 2),
    W("# HMM and FASTA files (assumed to be the current directory)", 1),
    W("hmm_dir=$(pwd)", 1),
    W("fasta_dir=$(pwd)", 1),
    W("output_dir=$(pwd)", 2) >>

\* The name with profile and sequence set exchanged
TbloutNameSetFirst(hmm, fasta) == fasta \o "_" \o hmm \o ".out"

\* line 81, the file name after --tblout
TbloutName(hmm, fasta) == hmm \o "_" \o fasta \o ".out"

\* line 81
InvocationWrite(hmm, fasta) ==
    W("hmmsearch --tblout ${output_dir}/" \o TbloutName(hmm, fasta)
        \o " -E 0.1 --noali ${hmm_dir}/" \o hmm \o ".hmm ${fasta_dir}/" \o fasta, 1)

\* lines 79-81: the writes of the double loop from (h, f) on
RECURSIVE InvocationWrites(_, _, _, _)
InvocationWrites(hs, fs, h, f) ==
    IF h > Len(hs) THEN <<>>
    ELSE IF f > Len(fs) THEN InvocationWrites(hs, fs, h + 1, 1)
    ELSE <<InvocationWrite(hs[h], fs[f])>> \o InvocationWrites(hs, fs, h, f + 1)

\* The lines of the file a sequence of writes leaves: text without a
\* newline runs into the next write; cur is the open last line.
RECURSIVE LinesOf(_, _, _)
LinesOf(writes, cur, acc) ==
    IF writes = <<>> THEN (IF cur = "" THEN acc ELSE Append(acc, cur))
    ELSE LET w == Head(writes)
             line == cur \o w.text
         IN  IF w.nl = 0 THEN LinesOf(Tail(writes), line, acc)
             ELSE LinesOf(Tail(writes), "",
                          acc \o <<line>> \o [k \in 1..(w.nl - 1) |-> ""])

HeaderLines(email) == LinesOf(HeaderWrites(email), "", <<>>)

\* The content of HMMsearch.sh after create_hmmer_alice_script
create_hmmer_alice_script(email, hs, fs) ==
    LinesOf(HeaderWrites(email) \o InvocationWrites(hs, fs, 1, 1), "", <<>>)

(***************************************************************************)
(* Prompt 3, lines 203-204.                                                *)
(***************************************************************************)
Emails == {"ab1@le.ac.uk"}

Prompt3 ==
    /\ pc = "input3"
    /\ \E address \in Emails :
         /\ script' = create_hmmer_alice_script(address, hmms, fastas)
         /\ user_email' = address
         /\ typed' = address
    /\ stages' = Append(stages, "script")
    /\ console' = "ALICE script created successfully"
    /\ pc' = "input4"
    /\ UNCHANGED <<error, urls, fastas, hmms, user_input, user_input2,
                   user_input4, files, failed, hit_db, opened, outs, df,
                   summary, pivot_table, images, top_hits>>

(***************************************************************************)
(* The cluster run between prompts 3 and 4 (lines 209-211): the operator   *)
(* runs HMMsearch.sh, and each hmmsearch line whose inputs exist writes    *)
(* the --tblout file it names.                                             *)
(***************************************************************************)
ProfilePool == PfamIdentifiers(TsvDir[DefaultTsv].Accession)

FastaPool == [k \in 1..Len(ExtractUrls(Doc)) |->
                download_and_unzip_fasta(ExtractUrls(Doc)[k])]

IndexIn(q, x) == CHOOSE k \in 1..Len(q) : q[k] = x

Num(k) == Char(Digits, k + 1)

\* The hit databases: how many rows a search reports, how targets and
\* queries are named, and how the rows score.
HitDbs ==
    [n : 0..MaxHits, vary : BOOLEAN, ids : {"per_set", "shared", "repeat"},
     queries : {"profile", "alternate"},
     scores : {"const", "up", "down", "mod2", "mod3"}]

HitCount(db, hmm, fasta) ==
    IF db.vary
    THEN (db.n + IndexIn(ProfilePool, hmm) + IndexIn(FastaPool, fasta)) % (MaxHits + 1)
    ELSE db.n

\* The tabular row k of the search of fasta with profile hmm
HitRow(db, hmm, fasta, k) ==
    LET b == ((IndexIn(ProfilePool, hmm) - 1) * Len(FastaPool)
                + IndexIn(FastaPool, fasta) - 1) * MaxHits + k
    IN  [target |-> CASE db.ids = "per_set" -> fasta \o "|" \o Num(k)
                      [] db.ids = "shared" -> "prot" \o Num(k)
                      [] db.ids = "repeat" -> "prot1",
         query |-> IF db.queries = "alternate" /\ k % 2 = 0 THEN "alt" ELSE hmm,
         evalue |-> b,
         bitscore |-> CASE db.scores = "const" -> 50
                        [] db.scores = "up" -> b
                        [] db.scores = "down" -> 100 - b
                        [] db.scores = "mod2" -> b % 2
                        [] db.scores = "mod3" -> b % 3]

Hmmsearch(db, hmm, fasta) ==
    [k \in 1..HitCount(db, hmm, fasta) |-> HitRow(db, hmm, fasta, k)]

StripPrefix(s, pre) == SubSeq(s, Len(pre) + 1, Len(s))

\* The hmmsearch command lines of the script, each split at blanks
Invocations(lines) ==
    {Split(lines[k], " ") : k \in {j \in 1..Len(lines) : StartsWith(lines[j], "hmmsearch ")}}

\* --tblout <out> -E 0.1 --noali <hmmfile> <seqfile>
OutOf(cmd) == StripPrefix(cmd[3], "${output_dir}/")
HmmFileOf(cmd) == StripPrefix(cmd[7], "${hmm_dir}/")
SeqFileOf(cmd) == StripPrefix(cmd[8], "${fasta_dir}/")

Runnable(cmd) == HmmFileOf(cmd) \in files /\ SeqFileOf(cmd) \in files

RunOnAlice ==
    /\ pc = "input4"
    /\ DOMAIN outs = {}
    /\ \E cmds \in {{c \in Invocations(script) : Runnable(c)}} :
           /\ cmds # {}
           /\ outs' = [name \in {OutOf(c) : c \in cmds} |->
                         LET c == CHOOSE c \in cmds : OutOf(c) = name
                         IN  Hmmsearch(hit_db, DropLast(HmmFileOf(c), 4), SeqFileOf(c))]
    /\ UNCHANGED <<pc, error, urls, fastas, hmms, user_input, user_input2,
                   user_input4, typed, files, failed, console, stages,
                   script, hit_db, user_email, opened, df, summary, pivot_table, images, top_hits>>

(***************************************************************************)
(* Prompt 4, lines 209-214.                                                *)
(***************************************************************************)
\* A readiness test that takes any answer
AcceptsAnyAnswer(answer) == TRUE

AcceptsReady(answer) == answer = "y"    \* line 212

Prompt4 ==
    /\ pc = "input4"
    /\ \E raw \in Answers :
         /\ user_input4' = Lower(raw)
         /\ typed' = raw
         /\ console' = "Run the script on ALICE to get the output files."
         /\ IF AcceptsReady(user_input4')
            THEN /\ pc' = "parse"
                 /\ stages' = Append(stages, "aggregate")
            ELSE UNCHANGED <<pc, stages>>
    /\ UNCHANGED <<error, urls, fastas, hmms, user_input, user_input2, files,
                   failed, script, hit_db, user_email, opened, outs, df, summary,
                   pivot_table, images, top_hits>>

(***************************************************************************)
(* Function 4, parse_analyse_hmmer_outputs, lines 87-141.                  *)
(***************************************************************************)
\* The path joined with a dash
file_pathDash(hmm, fasta) == hmm \o "-" \o fasta \o ".out"

\* line 92
file_path(hmm, fasta) == hmm \o "_" \o fasta \o ".out"

\* lines 90-92: the paths opened, in the order of the double loop
RECURSIVE PathsFrom(_, _, _, _)
PathsFrom(hs, fs, h, f) ==
    IF h > Len(hs) THEN <<>>
    ELSE IF f > Len(fs) THEN PathsFrom(hs, fs, h + 1, 1)
    ELSE <<file_path(hs[h], fs[f])>> \o PathsFrom(hs, fs, h, f + 1)

OpenedPaths(hs, fs) == PathsFrom(hs, fs, 1, 1)

\* SearchIO.parse(file_path, "hmmer3-tab"), line 93: consecutive rows of
\* one query make one query result, and a query result refuses a second
\* hit with an id it already holds (ValueError).
ParseRaises(rows) ==
    \E i, j \in 1..Len(rows) :
        /\ i < j
        /\ rows[i].target = rows[j].target
        /\ \A k \in i..j : rows[k].query = rows[i].query

\* lines 97-102
Data(hit) == [target_name |-> hit.target, query_name |-> hit.query,
              e_value |-> hit.evalue, score |-> hit.bitscore]

\* The hits of one file, last first
ExtractedReversed(rows) == [k \in 1..Len(rows) |-> Data(rows[Len(rows) + 1 - k])]

\* lines 95-103 for one file: its hits in file order
Extracted(rows) == [k \in 1..Len(rows) |-> Data(rows[k])]

\* lines 89-103 over the paths from k on
RECURSIVE ExtractAll(_, _, _)
ExtractAll(paths, k, acc) ==
    IF k > Len(paths) THEN acc
    ELSE ExtractAll(paths, k + 1, acc \o Extracted(outs[paths[k]]))

\* The first path whose open or parse raises, 0 when none does
FirstBad(paths) ==
    LET bad == {k \in 1..Len(paths) :
                  paths[k] \notin DOMAIN outs \/ ParseRaises(outs[paths[k]])}
    IN  IF bad = {} THEN 0 ELSE CHOOSE k \in bad : \A m \in bad : k <= m

\* lines 89-107
ParseOutputs ==
    /\ pc = "parse"
    /\ \E paths \in {OpenedPaths(hmms, fastas)} :
       \E bad \in {FirstBad(paths)} :
           IF bad = 0
           THEN /\ df' = ExtractAll(paths, 1, <<>>)
                /\ opened' = paths
                /\ console' = "<the aggregated table>"
                /\ pc' = "to_csv"
                /\ error' = error
           ELSE /\ Crash(IF paths[bad] \in DOMAIN outs THEN "ValueError"
                         ELSE "FileNotFoundError")
                /\ opened' = SubSeq(paths, 1, bad)
                /\ UNCHANGED <<df, console>>
    /\ UNCHANGED <<urls, fastas, hmms, user_input, user_input2, user_input4,
                   typed, files, failed, stages, script,
                   hit_db, user_email, outs, summary, pivot_table, images, top_hits>>

\* DataFrame.pivot raises on an index/columns pair that occurs twice
HasDuplicatePair(rows) ==
    \E i, j \in 1..Len(rows) :
        /\ i < j
        /\ rows[i].target_name = rows[j].target_name
        /\ rows[i].query_name = rows[j].query_name

PairsOf(rows) == {<<rows[k].target_name, rows[k].query_name>> : k \in 1..Len(rows)}

\* A reshape that keeps the last row of a pair instead of raising
PivotKeepLast(rows) ==
    IF rows = <<>> THEN [raises |-> "KeyError", cells |-> <<>>]
    ELSE [raises |-> "",
          cells |-> [p \in PairsOf(rows) |->
                       rows[CHOOSE k \in 1..Len(rows) :
                              /\ p = <<rows[k].target_name, rows[k].query_name>>
                              /\ \A m \in (k + 1)..Len(rows) :
                                    p # <<rows[m].target_name, rows[m].query_name>>].score]]

\* df.pivot(index='target_name', columns='query_name', values='score'),
\* line 114: the cell of every pair that has a row; the other cells of
\* the matrix are NaN and are left out.  A frame without rows has no
\* columns, and pivot raises KeyError.
Pivot(rows) ==
    IF rows = <<>> THEN [raises |-> "KeyError", cells |-> <<>>]
    ELSE IF HasDuplicatePair(rows) THEN [raises |-> "ValueError", cells |-> <<>>]
    ELSE [raises |-> "",
          cells |-> [p \in PairsOf(rows) |->
                       rows[CHOOSE k \in 1..Len(rows) :
                              p = <<rows[k].target_name, rows[k].query_name>>].score]]

\* A summary written only once the reshape has gone through
ToCsvAfterReshape ==
    /\ pc = "to_csv"
    /\ summary' = IF Pivot(df).raises = "" THEN [written |-> TRUE, rows |-> df]
                  ELSE summary
    /\ pc' = "pivot"
    /\ UNCHANGED <<error, urls, fastas, hmms, user_input, user_input2,
                   user_input4, typed, files, failed, console, stages,
                   script, hit_db, user_email, opened, outs, df, pivot_table,
                   images, top_hits>>

\* lines 110-111
ToCsv ==
    /\ pc = "to_csv"
    /\ summary' = [written |-> TRUE, rows |-> df]
    /\ pc' = "pivot"
    /\ UNCHANGED <<error, urls, fastas, hmms, user_input, user_input2,
                   user_input4, typed, files, failed, console, stages,
                   script, hit_db, user_email, opened, outs, df, pivot_table, images, top_hits>>

\* line 114
ReshapeStep ==
    /\ pc = "pivot"
    /\ \E result \in {Pivot(df)} :
         IF result.raises = ""
         THEN /\ pivot_table' = result.cells
              /\ pc' = "heatmap"
              /\ error' = error
         ELSE /\ Crash(result.raises)
              /\ pivot_table' = pivot_table
    /\ UNCHANGED <<urls, fastas, hmms, user_input, user_input2, user_input4,
                   typed, files, failed, console, stages, script,
                   hit_db, user_email, opened, outs, df, summary, images, top_hits>>

\* lines 117-126
Heatmap ==
    /\ pc = "heatmap"
    /\ images' = Append(images, "hmmer_output_heatmap.png")
    /\ pc' = "nlargest"
    /\ UNCHANGED <<error, urls, fastas, hmms, user_input, user_input2,
                   user_input4, typed, files, failed, console, stages,
                   script, hit_db, user_email, opened, outs, df, summary, pivot_table, top_hits>>

TopN == 10    \* line 129

\* The rank with a later row first among equal scores
RankOfLaterFirst(rows, i) ==
    Cardinality({j \in 1..Len(rows) :
                    \/ rows[j].score > rows[i].score
                    \/ rows[j].score = rows[i].score /\ j > i})

\* How many rows come before row i in descending score order, an earlier
\* row first among equal scores (keep='first')
RankOf(rows, i) ==
    Cardinality({j \in 1..Len(rows) :
                    \/ rows[j].score > rows[i].score
                    \/ rows[j].score = rows[i].score /\ j < i})

\* df.nlargest(n, 'score'), line 129
NLargest(n, rows) ==
    [r \in 1..(IF Len(rows) < n THEN Len(rows) ELSE n) |->
        rows[CHOOSE i \in 1..Len(rows) : RankOf(rows, i) = r - 1]]

\* line 129
TopHits ==
    /\ pc = "nlargest"
    /\ top_hits' = NLargest(TopN, df)
    /\ pc' = "barchart"
    /\ UNCHANGED <<error, urls, fastas, hmms, user_input, user_input2,
                   user_input4, typed, files, failed, console, stages,
                   script, hit_db, user_email, opened, outs, df, summary, pivot_table, images>>

\* lines 132-141
BarChart ==
    /\ pc = "barchart"
    /\ images' = Append(images, "hmmer_top_hits_bar_chart.png")
    /\ pc' = "done"
    /\ UNCHANGED <<error, urls, fastas, hmms, user_input, user_input2,
                   user_input4, typed, files, failed, console, stages,
                   script, hit_db, user_email, opened, outs, df, summary, pivot_table, top_hits>>

(***************************************************************************)
(* The run from its start.                                                 *)
(***************************************************************************)
\* Before line 148 nothing has run; the hit database is a fact of the
\* world the run meets.
Start(dbs) ==
    /\ pc = "fetch"
    /\ error = ""
    /\ urls = <<>>
    /\ fastas = <<>>
    /\ hmms = <<>>
    /\ user_input = ""
    /\ user_input2 = ""
    /\ user_input4 = ""
    /\ user_email = ""
    /\ typed = ""
    /\ files = {}
    /\ failed = {}
    /\ console = ""
    /\ stages = <<>>
    /\ script = <<>>
    /\ hit_db \in dbs
    /\ outs = <<>>
    /\ opened = <<>>
    /\ df = <<>>
    /\ summary = [written |-> FALSE, rows |-> <<>>]
    /\ pivot_table = <<>>
    /\ images = <<>>
    /\ top_hits = <<>>

\* The database of the whole-run specification: every search reports
\* MaxHits hits of that sequence set's own proteins.
OwnHitsDb == [n |-> MaxHits, vary |-> FALSE, ids |-> "per_set",
              queries |-> "profile", scores |-> "mod3"]

Init == Start({OwnHitsDb})

Next ==
    \/ CatalogFetch
    \/ SelectionLoop
    \/ Prompt2
    \/ Prompt3
    \/ RunOnAlice
    \/ Prompt4
    \/ ParseOutputs
    \/ ToCsv
    \/ ReshapeStep
    \/ Heatmap
    \/ TopHits
    \/ BarChart

Spec == Init /\ [][Next]_vars

(***************************************************************************)
(* The aggregation from the moment the job script has been written: the    *)
(* catalog of the whole page, a selection line typed and accepted, every   *)
(* fetch succeeded, a table chosen at prompt 2, the address given.         *)
(***************************************************************************)
AggLines == {"0 1 2", "2 0 1", "0 0 1", "1 1 1"}

AggTables == {DefaultTsv, "one.tsv", "none.tsv"}

AfterScript(line, tsv, db) ==
    LET catalog == ExtractUrls(SubSeq(Doc, 1, MaxLinks))
        ids == SplitWs(line)
        names == [k \in 1..3 |-> download_and_unzip_fasta(catalog[IntOf(ids[k]) + 1])]
        profiles == PfamIdentifiers(TsvDir[tsv].Accession)
        address == CHOOSE e \in Emails : TRUE
    IN  /\ pc = "input4"
        /\ error = ""
        /\ urls = catalog
        /\ fastas = names
        /\ hmms = profiles
        /\ user_input = line
        /\ user_input2 = "change"
        /\ user_email = address
        /\ user_input4 = ""
        /\ typed = address
        /\ files = {names[k] : k \in 1..3}
                     \cup {profiles[k] \o ".hmm" : k \in 1..Len(profiles)}
        /\ failed = {}
        /\ console = "ALICE script created successfully"
        /\ stages = <<"catalog", "download", "extract", "script">>
        /\ script = create_hmmer_alice_script(address, profiles, names)
        /\ hit_db = db
        /\ outs = <<>>
        /\ opened = <<>>
        /\ df = <<>>
        /\ summary = [written |-> FALSE, rows |-> <<>>]
        /\ pivot_table = <<>>
        /\ images = <<>>
        /\ top_hits = <<>>

InitAgg == \E line \in AggLines, tsv \in AggTables, db \in HitDbs :
              AfterScript(line, tsv, db)

NextAgg ==
    \/ RunOnAlice
    \/ Prompt4
    \/ ParseOutputs
    \/ ToCsv
    \/ ReshapeStep
    \/ Heatmap
    \/ TopHits
    \/ BarChart

SpecAgg == InitAgg /\ [][NextAgg]_vars

(***************************************************************************)
(* Properties.                                                             *)
(***************************************************************************)
Range(q) == {q[k] : k \in 1..Len(q)}

\* A line the Selector has to reject for a catalog of size: not three
\* tokens, a token that is no integer, or an integer outside [0, size)
OffendingLine(line, size) ==
    LET t == SplitWs(line)
    IN  \/ Len(t) # 3
        \/ \E k \in 1..Len(t) :
              \/ ~ParsesAsInt(t[k])
              \/ ~(0 <= IntOf(t[k]) /\ IntOf(t[k]) < size)

\* C1: every offending line read by the selection loop, whatever the
\* position of the offending token and whatever was rejected before, is
\* rejected: the run stays at prompt 1, nothing is downloaded and the
\* invalid-input message is printed.
C1_OffendingLineReprompts ==
    [][(pc = "input1" /\ ~ListingRaises /\ OffendingLine(user_input', Len(urls)))
          => /\ pc' = "input1"
             /\ fastas' = fastas
             /\ stages' = stages
             /\ console' = "Invalid input. Please enter three valid index numbers."]_vars

SuccessMessages == {"FASTA files downloaded successfully",
                    "HMM files downloaded successfully",
                    "ALICE script created successfully"}

\* C7: once the retrieval or decompression of an asset has failed, the run
\* is over: no success message is printed, no job script is written and
\* the failed asset's name is in neither list handed to the later stages.
C7_FailedFetchAborts ==
    failed # {} =>
        /\ pc = "crashed"
        /\ console \notin SuccessMessages
        /\ script = <<>>
        /\ failed \cap (Range(fastas) \cup Range(hmms)) = {}

\* C8: an accepted selection line holds three pairwise distinct index
\* values, and the three names in fastas are pairwise distinct.
C8_AcceptedIndicesDistinct ==
    "download" \in Range(stages) =>
        LET t == SplitWs(user_input)
        IN  /\ \A i, j \in 1..Len(t) : i # j => IntOf(t[i]) # IntOf(t[j])
            /\ \A i, j \in 1..Len(fastas) : i # j => fastas[i] # fastas[j]

StageOrder == <<"catalog", "download", "extract", "script", "aggregate">>

Starts(stage) == stages' = Append(stages, stage)

\* C9: the stages start in the order catalog, download, extract, script,
\* aggregate, each at most once; each of the last four starts in the step
\* that reads the answer to its own prompt; extract starts only on 'y' or
\* 'change' in any letter case, aggregate only on 'y' in any letter case
\* and with the job script written; any other answer at prompts 2 and 4
\* leaves the run at that prompt with no stage started.
C9_StagesInOrderBehindPrompts ==
    [][/\ stages' = SubSeq(StageOrder, 1, Len(stages'))
       /\ stages' # stages => \E stage \in Range(StageOrder) : Starts(stage)
       /\ Starts("download") => pc = "input1" /\ typed' = user_input'
       /\ Starts("extract") => pc = "input2" /\ Lower(typed') \in {"y", "change"}
       /\ Starts("script") => pc = "input3" /\ typed' = user_email'
       /\ Starts("aggregate") =>
             pc = "input4" /\ Lower(typed') = "y" /\ script # <<>> /\ script' = script
       /\ (pc = "input2" /\ Lower(typed') \notin {"y", "change"})
             => pc' = "input2" /\ stages' = stages
       /\ (pc = "input4" /\ Lower(typed') # "y")
             => pc' = "input4" /\ stages' = stages]_vars

C9_Witness ==
    /\ pc = "done"
    /\ stages = StageOrder
    /\ typed = "Y"
    /\ user_input2 = "change"

\* The indices of the hmmsearch lines of the script
InvocationLines == {k \in 1..Len(script) : StartsWith(script[k], "hmmsearch ")}

\* The (profile, sequence set) pair of the n-th step of a profile-major,
\* sequence-set-minor walk
PairAt(n) == [hmm |-> hmms[((n - 1) \div Len(fastas)) + 1],
              fasta |-> fastas[((n - 1) % Len(fastas)) + 1]]

\* C2: the written script is the fixed header followed by exactly
\* Len(hmms) * Len(fastas) hmmsearch lines; the n-th of them belongs to the
\* n-th pair in profile-major, sequence-set-minor order, names the output
\* p_s.out, reads profile p.hmm and sequence set s.
C2_ScriptIsHeaderThenCrossProduct ==
    script # <<>> =>
        LET head == Len(script) - Len(hmms) * Len(fastas)
        IN  /\ head >= 0
            /\ SubSeq(script, 1, head) = HeaderLines(user_email)
            /\ InvocationLines = (head + 1)..Len(script)
            /\ \A n \in 1..(Len(hmms) * Len(fastas)) :
                 LET cmd == Split(script[head + n], " ")
                     p == PairAt(n).hmm
                     q == PairAt(n).fasta
                 IN  /\ Len(cmd) = 8
                     /\ cmd[2] = "--tblout"
                     /\ cmd[3] = "${output_dir}/" \o p \o "_" \o q \o ".out"
                     /\ cmd[7] = "${hmm_dir}/" \o p \o ".hmm"
                     /\ cmd[8] = "${fasta_dir}/" \o q

C2_Witness ==
    /\ script # <<>>
    /\ Len(hmms) = 2
    /\ Cardinality(Range(fastas)) = 3

\* The --tblout file names of the script, in script order
TbloutNames ==
    [n \in 1..Cardinality(InvocationLines) |->
        OutOf(Split(script[Nth(InvocationLines, n)], " "))]

\* C3: the paths the aggregator hands to the parser are the --tblout names
\* of the script, same names in the same order (all of them once every
\* file has been parsed, the first ones up to the file that raised
\* otherwise), and the script is still the one the current hmms and
\* fastas produce.
C3_OpenedAreTbloutNames ==
    "aggregate" \in Range(stages) /\ pc # "parse" =>
        /\ Len(opened) <= Len(TbloutNames)
        /\ opened = SubSeq(TbloutNames, 1, Len(opened))
        /\ (pc # "crashed" \/ summary.written) => opened = TbloutNames
        /\ script = create_hmmer_alice_script(user_email, hmms, fastas)

C3_Witness ==
    /\ pc = "done"
    /\ Len(opened) = 6
    /\ Cardinality(Range(opened)) = 6

\* The reshape step has acted: the summary is written and the run is past
\* line 114 or ended there.
Reshaped == summary.written /\ pc # "pivot"

\* Two rows of the table carry the same (target, query) pair
SharedPair(rows) ==
    \E i, j \in 1..Len(rows) :
        i # j /\ <<rows[i].target_name, rows[i].query_name>>
                   = <<rows[j].target_name, rows[j].query_name>>

\* C4: after the reshape step, a table in which two rows share a (target,
\* query) pair has ended the run with an error and no matrix, and a table
\* with rows and no shared pair has a matrix that holds every row's score
\* at that row's (target, query) cell.
C4_ReshapeFailsOnSharedPair ==
    Reshaped =>
        IF SharedPair(df)
        THEN pc = "crashed" /\ error = "ValueError" /\ pivot_table = <<>>
        ELSE df # <<>> =>
               /\ pc # "crashed"
               /\ \A k \in 1..Len(df) :
                    /\ <<df[k].target_name, df[k].query_name>> \in DOMAIN pivot_table
                    /\ pivot_table[<<df[k].target_name, df[k].query_name>>] = df[k].score

\* A shared pair from two different files, and in another run from one file
C4_Witness ==
    /\ Reshaped
    /\ pc = "crashed"
    /\ SharedPair(df)
    /\ Cardinality(Range(fastas)) = 3
    /\ hit_db.ids = "shared"

RECURSIVE SumLen(_, _)
SumLen(paths, n) == IF n = 0 THEN 0 ELSE SumLen(paths, n - 1) + Len(outs[paths[n]])

\* The table has been built (line 106 was reached)
Aggregated == pc \in {"to_csv", "pivot", "heatmap", "nlargest", "barchart", "done"}
                \/ summary.written

\* C5: the table holds one row per hit record of the Len(hmms) *
\* Len(fastas) files: the k-th record of the n-th file in profile-major,
\* sequence-set-minor order is the row at the number of records of the
\* earlier files plus k, and the row count is the sum of the hit counts.
C5_TableIsFilesInOrder ==
    Aggregated =>
        LET count == Len(hmms) * Len(fastas)
            name(n) == PairAt(n).hmm \o "_" \o PairAt(n).fasta \o ".out"
            names == [n \in 1..count |-> name(n)]
        IN  /\ Len(df) = SumLen(names, count)
            /\ \A n \in 1..count : \A k \in 1..Len(outs[names[n]]) :
                 LET row == df[SumLen(names, n - 1) + k]
                     hit == outs[names[n]][k]
                 IN  /\ row.target_name = hit.target
                     /\ row.query_name = hit.query
                     /\ row.e_value = hit.evalue
                     /\ row.score = hit.bitscore

C5_Witness ==
    /\ Aggregated
    /\ Len(hmms) = 2
    /\ hit_db.vary
    /\ Len(df) > 6
    /\ \E a, b \in Range(opened) : Len(outs[a]) # Len(outs[b])

\* The bar chart's input has been selected (line 129 was passed)
Ranked == pc \in {"barchart", "done"}

\* Where a selected record stands in the table
PlaceOf(r) == CHOOSE i \in 1..Len(df) : df[i] = top_hits[r]

Heat == "hmmer_output_heatmap.png"
Bars == "hmmer_top_hits_bar_chart.png"

\* C10: the summary file holds every row of the table before the reshape
\* is attempted; when the reshape fails the summary holds all rows and no
\* image exists; the heatmap is saved before the bar chart, so the bar
\* chart never exists without the heatmap.
C10_SummaryThenHeatmapThenBars ==
    /\ pc = "pivot" => summary.written /\ summary.rows = df
    /\ (Reshaped /\ pc = "crashed") =>
          summary.written /\ summary.rows = df /\ images = <<>>
    /\ images # <<>> => summary.written /\ summary.rows = df /\ images[1] = Heat
    /\ Bars \in Range(images) => images = <<Heat, Bars>>
    /\ pc = "done" => images = <<Heat, Bars>>

C10_Witness ==
    /\ Reshaped
    /\ pc = "crashed"
    /\ error = "ValueError"
    /\ SharedPair(summary.rows)
    /\ images = <<>>

====
